---- MODULE Spec2Model ----
(***************************************************************************)
(* Model of TwitterScraper.py: the URL builder (construct_url), the tweet  *)
(* extractor (parse_tweets), the transport retry logic (execute_search),   *)
(* the pagination loop (TwitterSearch.search) and the file sink            *)
(* (TwitterSearchImpl.search / save_items).                                *)
(*                                                                         *)
(* Text values (query, cursor, URL parameter values) are sequences of      *)
(* one-character strings, so that urlencode's quoting is computed rather   *)
(* than assumed.  Optional values are tagged records: tag "absent" is a   *)
(* dictionary key or header that is not there, tag "none" is None/null.    *)
(***************************************************************************)
EXTENDS Integers, Sequences, FiniteSets, TLC

(* ----------------------------- constants ------------------------------ *)
DEFAULT_ERROR_DELAY == 5
MAX_RETRIES_SESSION == 5
MAX_RETRIES == MAX_RETRIES_SESSION * 5
DEFAULT_TARGET_TYPE == <<"t", "w", "e", "e", "t", "s">>

\* Python's None where a text value may stand (language, cursor)
NONE == <<"<None>">>
\* max_items = None (DEFAULT_LIMIT)
NoLimit == [unlimited |-> TRUE]

(* ------------------------------ bounds -------------------------------- *)
\* longest items_html fragment, in stream items
MaxBatch == 3
\* execute_search is followed up to this retry_num
MaxRetryNum == 6
\* records written to the output file before the model stops following
MaxCounter == 6
\* page fetches (execute_search calls of search) the model follows
MaxFetch == 3
\* longest accounts list given to twitter_search
MaxAccounts == 2
\* longest list of profile records given to retrieve_user_details
MaxUsers == 201

(* ------------------------- urlencode / str() --------------------------- *)
\* characters quote_plus leaves as they are (letters, digits, "_.-~")
SafeChars == {"C", "c", "1", "2", "q", "a", "e", "n", "N", "o", "t", "w", "s",
              "d", "f", "u", "l", "r", "y", "p", "m", "b", "-", "_", "."}

\* urllib quote_plus on one character
QuoteChar(ch) ==
    IF ch \in SafeChars THEN <<ch>>
    ELSE IF ch = " " THEN <<"+">>
    ELSE IF ch = "+" THEN <<"%", "2", "B">>
    ELSE IF ch = ":" THEN <<"%", "3", "A">>
    ELSE IF ch = "=" THEN <<"%", "3", "D">>
    ELSE <<"%", "?", "?">>

RECURSIVE QuotePlus(_)
QuotePlus(s) ==
    IF s = <<>> THEN <<>> ELSE QuoteChar(Head(s)) \o QuotePlus(Tail(s))

\* the inverse the server applies to a query-string value (unquote_plus)
RECURSIVE UnquotePlus(_)
UnquotePlus(s) ==
    IF s = <<>> THEN <<>>
    ELSE IF Head(s) = "+" THEN <<" ">> \o UnquotePlus(Tail(s))
    ELSE IF Head(s) = "%" /\ Len(s) >= 3
         THEN (IF SubSeq(s, 2, 3) = <<"2", "B">> THEN <<"+">>
               ELSE IF SubSeq(s, 2, 3) = <<"3", "A">> THEN <<":">>
               ELSE IF SubSeq(s, 2, 3) = <<"3", "D">> THEN <<"=">>
               ELSE <<"?">>) \o UnquotePlus(SubSeq(s, 4, Len(s)))
    ELSE <<Head(s)>> \o UnquotePlus(Tail(s))

\* str(v) as urlencode applies it to a parameter value: None becomes the
\* four characters N, o, n, e; text stays as it is
PyStr(v) == IF v = NONE THEN <<"N", "o", "n", "e">> ELSE v

\* urlencode of an ordered list of <<key, value>> pairs
UrlEncode(params) ==
    [i \in 1..Len(params) |-> <<params[i][1], QuotePlus(PyStr(params[i][2]))>>]

(* ---------------------------- construct_url --------------------------- *)
\* mutant: the cursor is not passed on
construct_url_noCursor(query, target_type, max_position, language) ==
    [scheme |-> "https", netloc |-> "twitter.com", path |-> "/i/search/timeline",
     query |-> UrlEncode(
        <<  <<"f", target_type>>,
            <<"max_position", NONE>>,
            <<"q", query>> >>
        \o (IF language # NONE /\ language # <<>> THEN << <<"l", language>> >> ELSE <<>>))]

\* the params dict in insertion order, 'l' added only for a truthy language,
\* then urlencode and urlunparse
construct_url(query, target_type, max_position, language) ==
    [scheme |-> "https", netloc |-> "twitter.com", path |-> "/i/search/timeline",
     query |-> UrlEncode(
        <<  <<"f", target_type>>,
            <<"vertical", <<"d", "e", "f", "a", "u", "l", "t">>>>,
            <<"include_available_features", <<"1">>>>,
            <<"include_entities", <<"1">>>>,
            <<"include_new_items_bar", <<"t", "r", "u", "e">>>>,
            <<"reset_error_state", <<"f", "a", "l", "s", "e">>>>,
            <<"src", <<"t", "y", "p", "d">>>>,
            <<"max_position", max_position>>,
            <<"q", query>> >>
        \o (IF language # NONE /\ language # <<>> THEN << <<"l", language>> >> ELSE <<>>))]

\* the values a URL's query string carries for one key
UrlValues(u, key) == {u.query[i][2] : i \in {j \in 1..Len(u.query) : u.query[j][1] = key}}

(* ----------------------------- parse_tweets --------------------------- *)
\* A stream item of an items_html fragment, by the markup it carries:
\*   id       the data-item-id attribute (0: the attribute is not there)
\*   text     a node of class tweet-text exists
\*   ts       a node of class _timestamp exists
\*   div      a node of class tweet exists
\*   counters the number of ProfileTweet-actionCount nodes
Good(i) == [id |-> i, text |-> TRUE, ts |-> TRUE, div |-> TRUE, counters |-> 3]
NoId == [id |-> 0, text |-> FALSE, ts |-> FALSE, div |-> TRUE, counters |-> 2]
NoText == [id |-> 3, text |-> FALSE, ts |-> FALSE, div |-> TRUE, counters |-> 2]
NoTimestamp == [id |-> 4, text |-> TRUE, ts |-> FALSE, div |-> TRUE, counters |-> 3]
NoTweetDiv == [id |-> 5, text |-> TRUE, ts |-> TRUE, div |-> FALSE, counters |-> 3]
FewCounters == [id |-> 6, text |-> TRUE, ts |-> TRUE, div |-> TRUE, counters |-> 2]

\* the stream items fragments are made of
Items ==
    [id : 0..2, text : BOOLEAN, ts : BOOLEAN, div : {TRUE}, counters : {2, 3}]
    \cup { NoTweetDiv }

\* mutant: the timestamp is read before the tweet-text check
ItemOutcome_timestampFirst(item) ==
    IF item.id = 0 THEN "skip"
    ELSE IF ~item.ts THEN "AttributeError"
    ELSE IF ~item.text THEN "skip"
    ELSE IF ~item.div THEN "AttributeError"
    ELSE IF item.counters < 3 THEN "IndexError"
    ELSE "record"

\* mutant: missing counters are taken for zero
ItemOutcome_zeroCounters(item) ==
    IF item.id = 0 THEN "skip"
    ELSE IF ~item.text THEN "skip"
    ELSE IF ~item.ts THEN "AttributeError"
    ELSE IF ~item.div THEN "AttributeError"
    ELSE "record"

\* what one pass of the for loop does with an item: "skip" (continue),
\* "record" (tweets.append) or the exception the pass raises
ItemOutcome(item) ==
    IF item.id = 0 THEN "skip"
    ELSE IF ~item.text THEN "skip"
    ELSE IF ~item.ts THEN "AttributeError"
    ELSE IF ~item.div THEN "AttributeError"
    ELSE IF item.counters < 3 THEN "IndexError"
    ELSE "record"

RECURSIVE ParseFrom(_, _)
ParseFrom(batch, tweets) ==
    IF batch = <<>> THEN [exc |-> "none", tweets |-> tweets]
    ELSE LET o == ItemOutcome(Head(batch)) IN
         IF o = "skip" THEN ParseFrom(Tail(batch), tweets)
         ELSE IF o = "record"
              THEN ParseFrom(Tail(batch), Append(tweets, [id |-> Head(batch).id]))
         ELSE [exc |-> o, tweets |-> <<>>]

\* parse_tweets(items_html): the records, or the exception that escapes
parse_tweets(items_html) == ParseFrom(items_html, <<>>)

(* ------------------------------ save_items ---------------------------- *)
\* TwitterSearchImpl.save_items from counter c: the counter after the call
\* and the value returned.  The loop returns False at the first item that
\* brings the counter to max_items.
RECURSIVE SaveFrom(_, _, _)
SaveFrom(c, n, max_items) ==
    IF n = 0 THEN [counter |-> c, ret |-> TRUE]
    ELSE IF max_items # NoLimit /\ c + 1 >= max_items.limit
         THEN [counter |-> c + 1, ret |-> FALSE]
    ELSE SaveFrom(c + 1, n - 1, max_items)

\* mutant: the whole batch is written before the limit is looked at
save_items_wholeBatch(c, items, max_items) ==
    [counter |-> c + Len(items),
     ret |-> max_items = NoLimit \/ c + Len(items) < max_items.limit]

save_items(c, items, max_items) == SaveFrom(c, Len(items), max_items)

(* ------------------------------- inputs ------------------------------- *)
Queries == { <<"q", " ", "f", "r", "o", "m", ":", "a">> }
Languages == { NONE, <<"e", "n">> }
Cursors == { <<"C", "1">>, <<"c", "+">> }
Limits == { NoLimit, [limit |-> 1], [limit |-> 3] }
\* rate_delay: a length that tells the sleep of line 99 from no sleep
RateDelays == { 2 }
ErrorDelays == { DEFAULT_ERROR_DELAY }

\* every items_html fragment of at most MaxBatch stream items
Batches == UNION { [1..n -> Items] : n \in 0..MaxBatch }

\* the fragments the pages of a search run are drawn from: no item, items
\* that are all skipped, one and two records, the page of the two-page
\* scenario, and fragments on which parse_tweets raises
Fragments ==
    { <<>>,
      <<NoId, NoText>>,
      <<Good(1)>>,
      <<Good(2), Good(1)>>,
      <<Good(1), NoText, Good(2)>>,
      <<NoId, Good(2), NoText>>,
      <<Good(1), FewCounters>>,
      <<NoTimestamp, Good(1)>> }

\* the items_html entry of a response body
ItemsFields == { [tag |-> "absent"], [tag |-> "none"] }
               \cup { [tag |-> "html", items |-> b] : b \in Fragments }

\* The min_position entry of a parsed body.  obj names the Python object
\* holding the value, which is what `is not` compares: None is one object
\* ("shared"); a string decoded from this body is a new object ("fresh") or
\* one the runtime shares between equal strings ("shared"), and which of the
\* two is the runtime's choice.  "old" is an object decoded from the body
\* before this one.
NoCursor == [tag |-> "value", val |-> NONE, obj |-> "shared"]
CursorFields ==
    { [tag |-> "absent"], NoCursor }
    \cup { [tag |-> "value", val |-> c, obj |-> o] :
              c \in Cursors, o \in {"shared", "fresh"} }

\* response.json() of a body: JSON null, or an object
JsonNull == [tag |-> "none"]
Bodies ==
    { JsonNull }
    \cup { [tag |-> "dict", items_html |-> i, min_position |-> m] :
              i \in ItemsFields, m \in CursorFields }

\* bodies sent with HTTP 400: an error object, with or without the envelope
Bodies400 ==
    { b \in Bodies : b.tag = "dict" =>
          /\ b.items_html.tag # "html" \/ b.items_html.items = <<>>
          /\ b.min_position.tag = "absent" \/ b.min_position = NoCursor }

\* x-rate-limit-reset of a 429 response and the clock at the time it is read
\* (epoch seconds); "text" is a value int() rejects
ResetHeaders == { [tag |-> "absent"], [tag |-> "text"] }
                \cup { [tag |-> "int", v |-> r] : r \in {110} }
Nows == { 100, 115 }

\* retry-after of any other error response: delta-seconds, digits followed by
\* other characters, an HTTP-date (v: seconds from now), text that is neither
RetryAfterHeaders ==
    { [tag |-> "absent"], [tag |-> "digitsThenText"], [tag |-> "text"] }
    \cup { [tag |-> "digits", v |-> d] : d \in {3} }
    \cup { [tag |-> "date", v |-> d] : d \in {-4, 7} }

(* ------------------------ twitter_search inputs ----------------------- *)
\* None or an empty string or list: what `not x` takes for false
Falsy == <<>>

Accounts == { "a", "b" }
AccountLists == UNION { [1..n -> Accounts] : n \in 0..MaxAccounts }
SearchTerms == { Falsy, <<"q">> }
OutputFiles == { Falsy, <<"out", "">> }

\* act + '.jsonl'
Jsonl(act) == <<act, ".jsonl">>
\* path.join(output_dir, name); output_dir is a directory of its own
Join(name) == [dir |-> "output_dir", name |-> name]
\* a file name used as it is, relative to the working directory
Plain(name) == [dir |-> "", name |-> name]

Paths == { Join(Jsonl(a)) : a \in Accounts } \cup { Join(n) : n \in OutputFiles \ {Falsy} }
         \cup { Plain(n) : n \in OutputFiles \ {Falsy} }

\* a file system: whether output_dir is a directory, and each file as
\* path.getsize sees it: "missing" (OSError), "empty" (0) or "content" (> 0)
FileSystems ==
    { f \in [isdir : BOOLEAN, size : [Paths -> {"missing", "empty", "content"}]] :
        ~f.isdir => \A p \in Paths : p.dir = "output_dir" => f.size[p] = "missing" }

ArgSets == [search_terms : SearchTerms, accounts : AccountLists, output_file : OutputFiles]

\* What one TwitterSearchImpl.search run leaves behind once the file is
\* open: the requests it sent (the first execute_search call sends at least
\* one), whether records reached the file, and whether it returned or let
\* an exception out.
RunOutcomes == [requests : {1, 2}, wrote : BOOLEAN, ends : {"returned", "raised"}]

(* --------------------------- execute_search --------------------------- *)
\* mutant: the wait is not multiplied by error_delay
Handle429_noFactor(h, now, delay) ==
    IF h.tag = "absent" THEN [exc |-> "KeyError", sleep |-> 0]
    ELSE IF h.tag = "text" THEN [exc |-> "ValueError", sleep |-> 0]
    ELSE IF h.v - now < 0 THEN [exc |-> "ValueError", sleep |-> 0]
    ELSE [exc |-> "none", sleep |-> h.v - now]

\* lines 124-133: the sleep of the 429 branch, or the exception raised on
\* the way to it
Handle429(h, now, delay) ==
    IF h.tag = "absent" THEN [exc |-> "KeyError", sleep |-> 0]
    ELSE IF h.tag = "text" THEN [exc |-> "ValueError", sleep |-> 0]
    ELSE LET seconds == (h.v - now) * delay IN
         IF seconds < 0 THEN [exc |-> "ValueError", sleep |-> 0]
         ELSE [exc |-> "none", sleep |-> seconds]

\* lines 135-151: the sleep of the else branch, or the exception raised on
\* the way to it.  hasMessage: the response object has a `message` attribute
HandleOther(h, hasMessage, delay) ==
    IF h.tag = "absent" THEN [exc |-> "KeyError", sleep |-> 0]
    ELSE IF h.tag = "digitsThenText" THEN [exc |-> "ValueError", sleep |-> 0]
    ELSE IF h.tag = "text" THEN [exc |-> "TypeError", sleep |-> 0]
    ELSE IF ~hasMessage THEN [exc |-> "AttributeError", sleep |-> 0]
    ELSE LET total_sleep == h.v * delay IN
         IF total_sleep < 0 THEN [exc |-> "ValueError", sleep |-> 0]
         ELSE [exc |-> "none", sleep |-> total_sleep]

\* lines 153-157: what follows the sleep of the else branch
AfterSleep(n) ==
    IF n % MAX_RETRIES_SESSION = 0 /\ n > 0 THEN "rotate"
    ELSE IF n = MAX_RETRIES THEN "giveup"
    ELSE "retry"

(* -------------------------------- state ------------------------------- *)
VARIABLES
    pc,               \* "idle", "exec" (inside execute_search), "loop" (at the while test), "done"
    rate_delay,       \* self.rate_delay
    error_delay,      \* self.error_delay
    max_items,        \* self.max_items
    counter,          \* self.counter
    jsonl_file,       \* self.jsonl_file: "none", "open", "closed"
    ua,               \* session.headers['User-Agent']: the n-th value drawn from UA.random
    query,            \* search(query, ...)
    language,         \* kwargs['language']
    url,              \* the url of search / of execute_search
    retry_num,        \* execute_search's retry_num
    response,         \* search's response; tag "unset" while a fetch is under way
    continue_search,  \* search's continue_search
    min_item,         \* search's min_item
    outcome,          \* how search ended
    \* history of the run, read by the properties only
    nFetch,           \* execute_search calls made by search
    sleeps,           \* the sleep() calls since the last request was sent
    last,             \* the last HTTP exchange and what was in force when it was sent
    call,             \* the execute_search call under way or last ended
    lastAct,          \* the action taken last
    handed,           \* records passed to save_items so far
    nSaves,           \* save_items calls so far
    afterFalse,       \* what happened after save_items returned False
    stale,            \* sink calls and requests after a repeated cursor was seen
    fixture,          \* progress of the run through the two-page fixture
    \* parse_tweets applied on its own
    pt_in,            \* items_html
    pt_out,           \* what parse_tweets(items_html) gave, once called
    \* twitter_search
    args,             \* the arguments of twitter_search
    mpc,              \* "start", "loop" (the for over accounts), "exit", "end", "raised"
    act_i,            \* position of the for loop in accounts
    fs,               \* the file system: output_dir and the output files
    exit_status,      \* the argument of sys.exit, 0 while it was not called
    nRequests,        \* HTTP requests sent so far
    opens,            \* history: the io.open(filepath, 'w') calls that succeeded
    visits,           \* history: the passes of the for loop
    \* retrieve_user_details
    ud_pc,            \* "loop" (the for over range), "done", "raised"
    ud_n,             \* len(items); record k is the k-th of the list, from 1
    ud_i,             \* the loop variable i of the pass to come
    ud_calls,         \* history: the slice submitted by each UsersLookup call
    ud_merged         \* history: the positions each call's results were merged into

vars == << pc, rate_delay, error_delay, max_items, counter, jsonl_file, ua, query,
           language, url, retry_num, response, continue_search, min_item, outcome,
           nFetch, sleeps, last, call, lastAct, handed, nSaves, afterFalse, stale,
           fixture, pt_in, pt_out, args, mpc, act_i, fs, exit_status, nRequests,
           opens, visits, ud_pc, ud_n, ud_i, ud_calls, ud_merged >>

\* the state of twitter_search and of retrieve_user_details
mainVars == << args, mpc, act_i, fs, exit_status, nRequests, opens, visits >>
udVars == << ud_pc, ud_n, ud_i, ud_calls, ud_merged >>
\* the state of one search run
runVars == << pc, rate_delay, error_delay, max_items, counter, jsonl_file, ua, query,
              language, url, retry_num, response, continue_search, min_item, outcome,
              nFetch, sleeps, last, call, handed, nSaves, afterFalse, stale, fixture >>

\* what no step of a search run changes
config == << rate_delay, error_delay, max_items, query, language, pt_in, pt_out,
             mainVars, udVars >>
sinkHist == << handed, nSaves >>

Unset == [tag |-> "unset"]
Running == [how |-> "running", exc |-> "none", at |-> "none"]
Returned(terminal) == [how |-> terminal, exc |-> "none", at |-> "none"]
Raised(e, where) == [how |-> "raised", exc |-> e, at |-> where]
NoExchange == [kind |-> "none"]

Min(a, b) == IF a < b THEN a ELSE b

\* page 1 (two valid items, one without a tweet-text node, cursor "C1") and
\* page 2 (no items) of the two-page scenario
IsPage1(b) ==
    /\ b.tag = "dict"
    /\ b.items_html = [tag |-> "html", items |-> <<Good(1), NoText, Good(2)>>]
    /\ b.min_position.tag = "value"
    /\ b.min_position.val = <<"C", "1">>
IsPage2(b) == b.tag = "dict" /\ b.items_html = [tag |-> "html", items |-> <<>>]

InitRun ==
    /\ pc = "idle"
    /\ rate_delay \in RateDelays
    /\ error_delay \in ErrorDelays
    /\ max_items \in Limits
    /\ counter = 0
    /\ jsonl_file = "none"
    /\ ua = 0
    /\ query = <<>>
    /\ language = NONE
    /\ url = Unset
    /\ retry_num = 0
    /\ response = Unset
    /\ continue_search = TRUE
    /\ min_item = NoCursor
    /\ outcome = Running
    /\ nFetch = 0
    /\ sleeps = <<>>
    /\ last = NoExchange
    /\ call = [onlyOther |-> TRUE, end |-> "none"]
    /\ lastAct = "Init"
    /\ handed = 0
    /\ nSaves = 0
    /\ afterFalse = [seen |-> FALSE, request |-> FALSE, save |-> FALSE]
    /\ stale = [seen |-> FALSE, n |-> 0]
    /\ fixture = "start"

\* twitter_search was not called
MainIdle ==
    /\ args = [search_terms |-> Falsy, accounts |-> <<>>, output_file |-> Falsy]
    /\ mpc = "none"
    /\ act_i = 0
    /\ fs = [isdir |-> TRUE, size |-> [p \in Paths |-> "missing"]]
    /\ exit_status = 0
    /\ nRequests = 0
    /\ opens = <<>>
    /\ visits = <<>>

\* retrieve_user_details was not called
UsersIdle ==
    /\ ud_pc = "none"
    /\ ud_n = 0
    /\ ud_i = 0
    /\ ud_calls = <<>>
    /\ ud_merged = <<>>

Init == InitRun /\ pt_in = <<>> /\ pt_out = Unset /\ MainIdle /\ UsersIdle

(* ------------------- TwitterSearchImpl.search, lines 398-411 ---------- *)
\* ... and TwitterSearch.search up to its first execute_search call,
\* lines 72-79: the headers are set, the output file is opened, the first
\* URL is built without a cursor.
Search(q, lang) ==
    /\ pc = "idle"
    /\ ua' = ua + 1
    /\ jsonl_file' = "open"
    /\ query' = q
    /\ language' = lang
    /\ url' = construct_url(q, DEFAULT_TARGET_TYPE, NONE, lang)
    /\ continue_search' = TRUE
    /\ min_item' = NoCursor
    /\ pc' = "exec"
    /\ retry_num' = 0
    /\ nFetch' = 1
    /\ call' = [onlyOther |-> TRUE, end |-> "running"]
    /\ lastAct' = "Search"
    /\ UNCHANGED << rate_delay, error_delay, max_items, counter, response, outcome,
                    sleeps, last, handed, nSaves, afterFalse, stale, fixture,
                    pt_in, pt_out, mainVars, udVars >>

(* ------------------- execute_search, lines 103-158 -------------------- *)
\* Each action below is one pass through execute_search: session.get is
\* sent and the response is handled up to the return, the exception that
\* escapes, or the recursive call.

\* history kept whenever a request is sent
Sent(kind, info) ==
    /\ last' = [kind |-> kind, info |-> info]
    /\ afterFalse' = [afterFalse EXCEPT !.request = @ \/ afterFalse.seen]
    /\ stale' = [stale EXCEPT !.n = IF stale.seen THEN Min(@ + 1, 3) ELSE @]

\* execute_search returns data to search, line 79 or 100; its retry_num
\* goes with its frame
ReturnToSearch(kind, data) ==
    /\ pc' = "loop"
    /\ response' = data
    /\ retry_num' = 0
    /\ call' = [onlyOther |-> call.onlyOther /\ kind = "other", end |-> "returned"]
    /\ fixture' = IF fixture = "start" /\ nFetch = 1 /\ IsPage1(data) THEN "p1"
                  ELSE IF fixture = "p1" /\ nFetch = 2 /\ IsPage2(data) THEN "p2"
                  ELSE "off"
    /\ UNCHANGED outcome

\* an exception leaves execute_search; search and TwitterSearchImpl.search
\* have no handler, so it ends them too and the file is left open
RaiseFromExecute(kind, e) ==
    /\ pc' = "done"
    /\ outcome' = Raised(e, "execute_search")
    /\ call' = [onlyOther |-> call.onlyOther /\ kind = "other", end |-> "raised"]
    /\ UNCHANGED << response, fixture >>

\* execute_search(url, retry_num + 1), line 158
Recurse(kind) ==
    /\ pc' = "exec"
    /\ retry_num' = retry_num + 1
    /\ call' = [onlyOther |-> call.onlyOther /\ kind = "other", end |-> "running"]
    /\ UNCHANGED << response, fixture, outcome >>

\* lines 112-115: a status below 400 and a JSON body
HttpOk(body) ==
    /\ pc = "exec"
    /\ Sent("200", "json")
    /\ ReturnToSearch("200", body)
    /\ sleeps' = <<>>
    /\ lastAct' = "HttpOk"
    /\ UNCHANGED << config, counter, jsonl_file, ua, url, continue_search,
                    min_item, nFetch, sinkHist >>

\* line 114: response.json() raises ValueError, which is no HTTPError
HttpOkNotJson ==
    /\ pc = "exec"
    /\ Sent("200", "text")
    /\ RaiseFromExecute("200", "ValueError")
    /\ sleeps' = <<>>
    /\ lastAct' = "HttpOkNotJson"
    /\ UNCHANGED << config, counter, jsonl_file, ua, url, retry_num, continue_search,
                    min_item, nFetch, sinkHist >>

\* line 112: session.get raises ConnectionError or Timeout, which is no HTTPError
NetworkFailure ==
    /\ pc = "exec"
    /\ Sent("network", "none")
    /\ RaiseFromExecute("network", "ConnectionError")
    /\ sleeps' = <<>>
    /\ lastAct' = "NetworkFailure"
    /\ UNCHANGED << config, counter, jsonl_file, ua, url, retry_num, continue_search,
                    min_item, nFetch, sinkHist >>

\* mutant: HTTP 400 is slept on and retried like the other error statuses
Http400_retried(body) ==
    /\ pc = "exec"
    /\ retry_num < MaxRetryNum
    /\ Sent("400", [json |-> TRUE, body |-> body])
    /\ sleeps' = <<error_delay>>
    /\ Recurse("400")
    /\ lastAct' = "Http400"
    /\ UNCHANGED << config, counter, jsonl_file, ua, url, continue_search, min_item,
                    nFetch, sinkHist >>

\* lines 120-122: HTTP 400 with a JSON body
Http400(body) ==
    /\ pc = "exec"
    /\ Sent("400", [json |-> TRUE, body |-> body])
    /\ ReturnToSearch("400", body)
    /\ sleeps' = <<>>
    /\ lastAct' = "Http400"
    /\ UNCHANGED << config, counter, jsonl_file, ua, url, continue_search,
                    min_item, nFetch, sinkHist >>

\* line 122: HTTP 400 whose body is no JSON
Http400NotJson ==
    /\ pc = "exec"
    /\ Sent("400", [json |-> FALSE])
    /\ RaiseFromExecute("400", "ValueError")
    /\ sleeps' = <<>>
    /\ lastAct' = "Http400NotJson"
    /\ UNCHANGED << config, counter, jsonl_file, ua, url, retry_num, continue_search,
                    min_item, nFetch, sinkHist >>

\* mutant: HTTP 429 is retried at once
Http429Sleep_noSleep(h, now) ==
    LET r == Handle429(h, now, error_delay) IN
    /\ pc = "exec"
    /\ retry_num < MaxRetryNum
    /\ r.exc = "none"
    /\ Sent("429", [reset |-> h, now |-> now])
    /\ sleeps' = <<>>
    /\ Recurse("429")
    /\ lastAct' = "Http429Sleep"
    /\ UNCHANGED << config, counter, jsonl_file, ua, url, continue_search, min_item,
                    nFetch, sinkHist >>

\* lines 123-133 and 158: HTTP 429, the sleep and the recursive call
Http429Sleep(h, now) ==
    LET r == Handle429(h, now, error_delay) IN
    /\ pc = "exec"
    /\ retry_num < MaxRetryNum
    /\ r.exc = "none"
    /\ Sent("429", [reset |-> h, now |-> now])
    /\ sleeps' = <<r.sleep>>
    /\ Recurse("429")
    /\ lastAct' = "Http429Sleep"
    /\ UNCHANGED << config, counter, jsonl_file, ua, url, continue_search, min_item,
                    nFetch, sinkHist >>

\* lines 123-133: HTTP 429 whose reset header is missing, is no integer or
\* lies in the past (sleep of a negative length)
Http429Raises(h, now) ==
    LET r == Handle429(h, now, error_delay) IN
    /\ pc = "exec"
    /\ r.exc # "none"
    /\ Sent("429", [reset |-> h, now |-> now])
    /\ sleeps' = <<>>
    /\ RaiseFromExecute("429", r.exc)
    /\ lastAct' = "Http429Raises"
    /\ UNCHANGED << config, counter, jsonl_file, ua, url, retry_num, continue_search,
                    min_item, nFetch, sinkHist >>

\* lines 134-158: any other HTTP error status, the sleep, then the rotation
\* of the User-Agent, the return of None, or neither, and the recursive call
HttpOtherSleep(h, hasMessage) ==
    LET r == HandleOther(h, hasMessage, error_delay)
        then == AfterSleep(retry_num) IN
    /\ pc = "exec"
    /\ retry_num < MaxRetryNum
    /\ r.exc = "none"
    /\ Sent("other", [retry_after |-> h, message |-> hasMessage])
    /\ sleeps' = <<r.sleep>>
    /\ ua' = IF then = "rotate" THEN ua + 1 ELSE ua
    /\ IF then = "giveup"
       THEN ReturnToSearch("other", JsonNull)
       ELSE Recurse("other")
    /\ lastAct' = "HttpOtherSleep"
    /\ UNCHANGED << config, counter, jsonl_file, url, continue_search, min_item,
                    nFetch, sinkHist >>

\* lines 134-151: the else branch raises: no retry-after header (KeyError),
\* digits followed by text (int: ValueError), text parsedate rejects
\* (mktime(None): TypeError), no `message` attribute on the response
\* (AttributeError), a date in the past (sleep of a negative length)
HttpOtherRaises(h, hasMessage) ==
    LET r == HandleOther(h, hasMessage, error_delay) IN
    /\ pc = "exec"
    /\ r.exc # "none"
    /\ Sent("other", [retry_after |-> h, message |-> hasMessage])
    /\ sleeps' = <<>>
    /\ RaiseFromExecute("other", r.exc)
    /\ lastAct' = "HttpOtherRaises"
    /\ UNCHANGED << config, counter, jsonl_file, ua, url, retry_num, continue_search,
                    min_item, nFetch, sinkHist >>

(* ------------------ TwitterSearch.search, lines 80-101 ---------------- *)
\* Each action below is one pass of the while loop, from its test to the
\* next execute_search call, the return or the exception.

\* `min_item is not max_item`, line 95: the two names hold different objects
IsNot(a, b) == a # b

\* line 80, with `and` evaluated left to right
InBody ==
    /\ response.tag = "dict"
    /\ continue_search
    /\ response.items_html.tag = "html"

\* search returns; TwitterSearchImpl.search closes the file, line 411
EndSearch(terminal) ==
    /\ pc' = "done"
    /\ outcome' = Returned(terminal)
    /\ jsonl_file' = "closed"

\* an exception leaves search; line 411 is not reached
RaiseFromSearch(e, where) ==
    /\ pc' = "done"
    /\ outcome' = Raised(e, where)
    /\ UNCHANGED jsonl_file

\* line 80: the while test is false
SearchLoopExit ==
    /\ pc = "loop"
    /\ IF response.tag = "none" THEN TRUE
       ELSE IF ~continue_search THEN TRUE
       ELSE response.items_html.tag = "none"
    /\ EndSearch(IF response.tag = "none" THEN "Exhausted"
                 ELSE IF ~continue_search THEN "SinkHalted"
                 ELSE "Exhausted")
    /\ lastAct' = "SearchLoopExit"
    /\ UNCHANGED << config, counter, ua, url, retry_num, response, continue_search,
                    min_item, nFetch, sleeps, last, call, sinkHist, afterFalse,
                    stale, fixture >>

\* line 80: response['items_html'] on a body without that key
SearchItemsKeyError ==
    /\ pc = "loop"
    /\ response.tag = "dict"
    /\ continue_search
    /\ response.items_html.tag = "absent"
    /\ RaiseFromSearch("KeyError", "search")
    /\ lastAct' = "SearchItemsKeyError"
    /\ UNCHANGED << config, counter, ua, url, retry_num, response, continue_search,
                    min_item, nFetch, sleeps, last, call, sinkHist, afterFalse,
                    stale, fixture >>

\* line 81: parse_tweets raises
SearchParseRaises ==
    /\ pc = "loop"
    /\ InBody
    /\ parse_tweets(response.items_html.items).exc # "none"
    /\ RaiseFromSearch(parse_tweets(response.items_html.items).exc, "parse_tweets")
    /\ lastAct' = "SearchParseRaises"
    /\ UNCHANGED << config, counter, ua, url, retry_num, response, continue_search,
                    min_item, nFetch, sleeps, last, call, sinkHist, afterFalse,
                    stale, fixture >>

\* lines 88-89: no items, break
SearchDrained ==
    /\ pc = "loop"
    /\ InBody
    /\ parse_tweets(response.items_html.items) = [exc |-> "none", tweets |-> <<>>]
    /\ EndSearch("Drained")
    /\ lastAct' = "SearchDrained"
    /\ UNCHANGED << config, counter, ua, url, retry_num, response, continue_search,
                    min_item, nFetch, sleeps, last, call, sinkHist, afterFalse,
                    stale, fixture >>

\* mutant: an empty batch goes on to save_items
Saving_allowEmpty(items) ==
    /\ pc = "loop"
    /\ InBody
    /\ parse_tweets(response.items_html.items) = [exc |-> "none", tweets |-> items]
    /\ save_items(counter, items, max_items).counter <= MaxCounter

\* the pass reaches save_items, line 91, with a non-empty batch
Saving(items) ==
    /\ pc = "loop"
    /\ InBody
    /\ parse_tweets(response.items_html.items) = [exc |-> "none", tweets |-> items]
    /\ items # <<>>
    /\ save_items(counter, items, max_items).counter <= MaxCounter

\* line 91 and the history of the sink
Saved(items) ==
    LET saved == save_items(counter, items, max_items) IN
    /\ counter' = saved.counter
    /\ continue_search' = saved.ret
    /\ handed' = handed + Len(items)
    /\ nSaves' = nSaves + 1
    /\ afterFalse' = [afterFalse EXCEPT !.seen = @ \/ ~saved.ret,
                                        !.save = @ \/ afterFalse.seen]
    /\ stale' = [seen |-> stale.seen
                          \/ (/\ response.min_position.tag = "value"
                              /\ response.min_position.val = min_item.val),
                 n |-> IF stale.seen THEN Min(stale.n + 1, 3) ELSE stale.n]

\* line 93: response["min_position"] on a body without that key
SearchSaveKeyError ==
    LET items == parse_tweets(response.items_html.items).tweets IN
    /\ Saving(items)
    /\ response.min_position.tag = "absent"
    /\ Saved(items)
    /\ RaiseFromSearch("KeyError", "search")
    /\ lastAct' = "SearchSaveKeyError"
    /\ UNCHANGED << config, ua, url, retry_num, response, min_item, nFetch, sleeps,
                    last, call, fixture >>

\* lines 91-95: the batch is saved and min_item and max_item are one
\* object, so the if body is skipped and the loop tests the same response
\* again
SearchSaveSame ==
    LET items == parse_tweets(response.items_html.items).tweets IN
    /\ Saving(items)
    /\ response.min_position.tag = "value"
    /\ ~IsNot(min_item, response.min_position)
    /\ Saved(items)
    /\ pc' = "loop"
    /\ lastAct' = "SearchSaveSame"
    /\ UNCHANGED << config, jsonl_file, ua, url, retry_num, response, min_item,
                    outcome, nFetch, sleeps, last, call, fixture >>

\* lines 91-101: the batch is saved, the next URL is built from the cursor,
\* the loop sleeps rate_delay and calls execute_search.  response is not
\* read until that call returns, so it is unset here; min_item is written
\* here and not at the return, as nothing reads it in between, and the
\* object it holds is from then on one of an earlier body.
SearchSaveFetch ==
    LET items == parse_tweets(response.items_html.items).tweets
        max_item == response.min_position IN
    /\ Saving(items)
    /\ nFetch < MaxFetch
    /\ max_item.tag = "value"
    /\ IsNot(min_item, max_item)
    /\ Saved(items)
    /\ url' = construct_url(query, DEFAULT_TARGET_TYPE, max_item.val, language)
    /\ sleeps' = Append(sleeps, rate_delay)
    /\ min_item' = [max_item EXCEPT !.obj = IF @ = "fresh" THEN "old" ELSE @]
    /\ response' = Unset
    /\ pc' = "exec"
    /\ retry_num' = 0
    /\ nFetch' = nFetch + 1
    /\ call' = [onlyOther |-> TRUE, end |-> "running"]
    /\ last' = NoExchange
    /\ lastAct' = "SearchSaveFetch"
    /\ UNCHANGED << config, jsonl_file, ua, outcome, fixture >>

(* ------------------------------ the system ---------------------------- *)
Next ==
    \/ \E q \in Queries, lang \in Languages : Search(q, lang)
    \/ \E body \in Bodies : HttpOk(body)
    \/ HttpOkNotJson
    \/ NetworkFailure
    \/ \E body \in Bodies400 : Http400(body)
    \/ Http400NotJson
    \/ \E h \in ResetHeaders, now \in Nows : Http429Sleep(h, now)
    \/ \E h \in ResetHeaders, now \in Nows : Http429Raises(h, now)
    \/ \E h \in RetryAfterHeaders, m \in BOOLEAN : HttpOtherSleep(h, m)
    \/ \E h \in RetryAfterHeaders, m \in BOOLEAN : HttpOtherRaises(h, m)
    \/ SearchLoopExit
    \/ SearchItemsKeyError
    \/ SearchParseRaises
    \/ SearchDrained
    \/ SearchSaveKeyError
    \/ SearchSaveSame
    \/ SearchSaveFetch

Spec == Init /\ [][Next]_vars

(* ------------------------ parse_tweets on its own ---------------------- *)
\* parse_tweets is a static method: it is applied here to every fragment
\* of at most MaxBatch items.
InitParse ==
    /\ InitRun
    /\ max_items = NoLimit
    /\ pt_in \in Batches
    /\ pt_out = Unset
    /\ MainIdle
    /\ UsersIdle

ParseTweets ==
    /\ pt_out = Unset
    /\ pt_out' = parse_tweets(pt_in)
    /\ lastAct' = "ParseTweets"
    /\ UNCHANGED << pc, rate_delay, error_delay, max_items, counter, jsonl_file, ua,
                    query, language, url, retry_num, response, continue_search,
                    min_item, outcome, nFetch, sleeps, last, call, handed, nSaves,
                    afterFalse, stale, fixture, pt_in, mainVars, udVars >>

SpecParse == InitParse /\ [][ParseTweets]_vars

(* ------------------------ twitter_search, lines 439-495 --------------- *)
\* a search run is not under way and parse_tweets is not applied on its own
RunIdle ==
    /\ InitRun
    /\ max_items = NoLimit
    /\ pt_in = <<>>
    /\ pt_out = Unset

InitMain ==
    /\ RunIdle
    /\ UsersIdle
    /\ args \in ArgSets
    /\ fs \in FileSystems
    /\ mpc = "start"
    /\ act_i = 0
    /\ exit_status = 0
    /\ nRequests = 0
    /\ opens = <<>>
    /\ visits = <<>>

\* mutant: the output directory is not looked at
ConfigCheck_dirIgnored(a, fsys) ==
    IF a.accounts = Falsy
    THEN IF a.search_terms = Falsy THEN "exit"
         ELSE IF a.output_file = Falsy THEN "exit"
         ELSE "terms"
    ELSE "accounts"

\* lines 460-476: sys.exit(1), the single search, or the for over accounts
ConfigCheck(a, fsys) ==
    IF a.accounts = Falsy
    THEN IF a.search_terms = Falsy THEN "exit"
         ELSE IF a.output_file = Falsy THEN "exit"
         ELSE "terms"
    ELSE IF ~fsys.isdir /\ a.output_file = Falsy THEN "exit"
    ELSE "accounts"

\* mutant: the size of the file is not looked at
HasContent_never(fsys, filepath) == FALSE

\* lines 484-489: path.getsize(filepath) > 0, OSError taken for "no"
HasContent(fsys, filepath) == fsys.size[filepath] = "content"

\* line 409: io.open(filepath, 'w') fails when the directory is not there
OpenFails(fsys, filepath) == filepath.dir = "output_dir" /\ ~fsys.isdir

\* TwitterSearchImpl(...).search(...), lines 469-472 and 491-495: the file
\* is opened for writing, which empties it, and the run goes its way; an
\* exception of open or of the run ends twitter_search
MainSearchRun(filepath, o, after) ==
    IF OpenFails(fs, filepath)
    THEN /\ mpc' = "raised"
         /\ UNCHANGED << fs, nRequests, opens >>
    ELSE /\ opens' = Append(opens, [path |-> filepath, was |-> fs.size[filepath]])
         /\ fs' = [fs EXCEPT !.size[filepath] = IF o.wrote THEN "content" ELSE "empty"]
         /\ nRequests' = nRequests + o.requests
         /\ mpc' = IF o.ends = "returned" THEN after ELSE "raised"

\* lines 460-466 and 474-476: sys.exit(1)
MainExit ==
    /\ mpc = "start"
    /\ ConfigCheck(args, fs) = "exit"
    /\ mpc' = "exit"
    /\ exit_status' = 1
    /\ lastAct' = "MainExit"
    /\ UNCHANGED << runVars, pt_in, pt_out, udVars, args, act_i, fs, nRequests,
                    opens, visits >>

\* lines 467-472: search terms and an output file, no accounts
MainTermsSearch(o) ==
    /\ mpc = "start"
    /\ ConfigCheck(args, fs) = "terms"
    /\ MainSearchRun(Join(args.output_file), o, "end")
    /\ lastAct' = "MainTermsSearch"
    /\ UNCHANGED << runVars, pt_in, pt_out, udVars, args, act_i, exit_status, visits >>

\* line 478: the for loop is entered
MainAccounts ==
    /\ mpc = "start"
    /\ ConfigCheck(args, fs) = "accounts"
    /\ mpc' = "loop"
    /\ act_i' = 1
    /\ lastAct' = "MainAccounts"
    /\ UNCHANGED << runVars, pt_in, pt_out, udVars, args, fs, exit_status, nRequests,
                    opens, visits >>

\* lines 482-487: the account's file has content, continue
MainSkipAccount ==
    LET act == args.accounts[act_i]
        filepath == Join(Jsonl(act)) IN
    /\ mpc = "loop"
    /\ act_i <= Len(args.accounts)
    /\ args.output_file = Falsy
    /\ HasContent(fs, filepath)
    /\ visits' = Append(visits, [act |-> act, what |-> "skip", was |-> fs.size[filepath],
                                 requests |-> 0])
    /\ act_i' = act_i + 1
    /\ lastAct' = "MainSkipAccount"
    /\ UNCHANGED << runVars, pt_in, pt_out, udVars, args, mpc, fs, exit_status,
                    nRequests, opens >>

\* lines 479-495: one pass of the for loop that reaches twit.search
MainAccountSearch(o) ==
    LET act == args.accounts[act_i]
        filepath == IF args.output_file # Falsy THEN Plain(args.output_file)
                    ELSE Join(Jsonl(act)) IN
    /\ mpc = "loop"
    /\ act_i <= Len(args.accounts)
    /\ args.output_file # Falsy \/ ~HasContent(fs, filepath)
    /\ MainSearchRun(filepath, o, "loop")
    /\ visits' = Append(visits, [act |-> act, what |-> "search", was |-> fs.size[filepath],
                                 requests |-> nRequests' - nRequests])
    /\ act_i' = act_i + 1
    /\ lastAct' = "MainAccountSearch"
    /\ UNCHANGED << runVars, pt_in, pt_out, udVars, args, exit_status >>

\* line 478: accounts is used up, twitter_search returns
MainReturn ==
    /\ mpc = "loop"
    /\ act_i > Len(args.accounts)
    /\ mpc' = "end"
    /\ lastAct' = "MainReturn"
    /\ UNCHANGED << runVars, pt_in, pt_out, udVars, args, act_i, fs, exit_status,
                    nRequests, opens, visits >>

NextMain ==
    \/ MainExit
    \/ \E o \in RunOutcomes : MainTermsSearch(o)
    \/ MainAccounts
    \/ MainSkipAccount
    \/ \E o \in RunOutcomes : MainAccountSearch(o)
    \/ MainReturn

SpecMain == InitMain /\ [][NextMain]_vars

(* ------------------ retrieve_user_details, lines 362-382 -------------- *)
\* the user lookup API limit per request
step == 100

\* items[i:stop] of a list of n records, i counted from 0: the records
\* lo..hi counted from 1, none when hi < lo
Slice(i, stop, n) == [lo |-> i + 1, hi |-> Min(stop, n)]
SliceLen(b) == IF b.hi >= b.lo THEN b.hi - b.lo + 1 ELSE 0

\* len(statuses): the lookup service answers with one status for each
\* screen name it knows
StatusCounts(b) == { m \in {SliceLen(b) - 1, SliceLen(b)} : m >= 0 }

InitUsers ==
    /\ RunIdle
    /\ MainIdle
    /\ ud_pc = "loop"
    /\ ud_n \in 0..MaxUsers
    /\ ud_i = 0
    /\ ud_calls = <<>>
    /\ ud_merged = <<>>

\* lines 377-380: one pass of the for loop, m statuses coming back
UsersLookup(m) ==
    LET batch == Slice(ud_i, step, ud_n) IN
    /\ ud_pc = "loop"
    /\ ud_i < ud_n
    /\ m \in StatusCounts(batch)
    /\ ud_calls' = Append(ud_calls, batch)
    /\ ud_merged' = Append(ud_merged, [lo |-> ud_i + 1, hi |-> ud_i + Min(m, step),
                                       call |-> Len(ud_calls) + 1])
    /\ ud_i' = ud_i + step
    /\ lastAct' = "UsersLookup"
    /\ UNCHANGED << runVars, pt_in, pt_out, mainVars, ud_pc, ud_n >>

\* line 378: the lookup service rejects a call without screen names
UsersLookupRaises ==
    LET batch == Slice(ud_i, step, ud_n) IN
    /\ ud_pc = "loop"
    /\ ud_i < ud_n
    /\ SliceLen(batch) = 0
    /\ ud_calls' = Append(ud_calls, batch)
    /\ ud_pc' = "raised"
    /\ lastAct' = "UsersLookupRaises"
    /\ UNCHANGED << runVars, pt_in, pt_out, mainVars, ud_n, ud_i, ud_merged >>

\* line 382: range(0, len(items), step) is used up
UsersReturn ==
    /\ ud_pc = "loop"
    /\ ud_i >= ud_n
    /\ ud_pc' = "done"
    /\ lastAct' = "UsersReturn"
    /\ UNCHANGED << runVars, pt_in, pt_out, mainVars, ud_n, ud_i, ud_calls, ud_merged >>

NextUsers ==
    \/ \E m \in 0..step : UsersLookup(m)
    \/ UsersLookupRaises
    \/ UsersReturn

SpecUsers == InitUsers /\ [][NextUsers]_vars

(* ------------------------------ properties ---------------------------- *)

\* C1: when every attempt of an execute_search call ended in an HTTP error
\* other than 400 and 429, the call does not raise, no request is pending
\* with a retry counter above MAX_RETRIES, and when the call has returned
\* it returned None.
C1_CeilingReturnsNone ==
    (call.onlyOther /\ last.kind = "other") =>
        /\ call.end # "raised"
        /\ pc = "exec" => retry_num <= MAX_RETRIES
        /\ call.end = "returned" => response = JsonNull

\* C2: once two consecutive responses carried the same min_position (the
\* first response's None counts, min_item starting as None), search stops
\* within a bound: here, after at most two further sink calls or requests.
C2_NoProgressStops == stale.seen => stale.n <= 2

\* C3: once save_items has returned False, no request is sent and
\* save_items is not called again.
C3_HaltsAfterFalse == ~afterFalse.request /\ ~afterFalse.save

\* C4: no exception leaves an execute_search call.
C4_NoExceptionEscapes == call.end # "raised"

C6_BadRequestReturnsBody ==
    [][ ( /\ last'.kind = "400"
          /\ lastAct' \in {"Http400", "Http400NotJson"}
          /\ last'.info.json )
        => ( /\ response' = last'.info.body
             /\ pc' = "loop"
             /\ call'.end = "returned"
             /\ sleeps' = <<>>
             /\ ua' = ua ) ]_vars

\* C6 witness: a 400 with a JSON object as body, handed to search
C6_Witness ==
    /\ lastAct = "Http400"
    /\ pc = "loop"
    /\ response.tag = "dict"
    /\ response = last.info.body
    /\ sleeps = <<>>

\* a fetch signalled the end of the results
EndOfResults(r) ==
    \/ r.tag = "none"
    \/ r.tag = "dict" /\ r.items_html.tag \in {"absent", "none"}

\* C7: when the response search holds signals the end of the results
\* (None, or items_html absent or null), search ends without an exception.
C7_EndOfResultsEndsNormally ==
    (pc = "done" /\ response # Unset /\ EndOfResults(response)) =>
        outcome.how \in {"Exhausted", "SinkHalted"}

\* C8: over the two-page scenario (page 1: two valid items, one item
\* without tweet-text, cursor "C1"; page 2: no items) search hands two
\* records to save_items in one call, makes two fetches, the second with
\* max_position C1, and, the sink not having asked to stop, ends in the
\* empty-batch branch.
C8_TwoPageScenario ==
    (fixture = "p2" /\ pc = "done") =>
        /\ handed = 2
        /\ nSaves = 1
        /\ nFetch = 2
        /\ UrlValues(url, "max_position") = { <<"C", "1">> }
        /\ continue_search => outcome = Returned("Drained")

C8_Witness ==
    /\ fixture = "p2"
    /\ pc = "done"
    /\ outcome = Returned("Drained")
    /\ handed = 2
    /\ nFetch = 2

\* C9: the URL built without a cursor has no max_position parameter; the
\* URL built with a cursor has max_position set to that cursor.  (min_item
\* holds the cursor the current URL was built from.)
C9_CursorParameter ==
    url # Unset =>
        IF min_item.val = NONE
        THEN UrlValues(url, "max_position") = {}
        ELSE { UnquotePlus(v) : v \in UrlValues(url, "max_position") } = { min_item.val }

\* the item has everything parse_tweets reads
WellFormed(item) ==
    item.id # 0 /\ item.text /\ item.ts /\ item.div /\ item.counters >= 3
\* the item lacks data-item-id or the tweet-text node
Lacking(item) == item.id = 0 \/ ~item.text

RECURSIVE IdsOf(_)
IdsOf(batch) ==
    IF batch = <<>> THEN <<>>
    ELSE (IF WellFormed(Head(batch)) THEN << [id |-> Head(batch).id] >> ELSE <<>>)
         \o IdsOf(Tail(batch))

\* C10: on a fragment whose items are well-formed or lack data-item-id or
\* the tweet-text node, parse_tweets does not raise and returns one record
\* for each well-formed item, in document order.
C10_SkipsLackingItems ==
    ( /\ pt_out # Unset
      /\ \A i \in 1..Len(pt_in) : WellFormed(pt_in[i]) \/ Lacking(pt_in[i]) )
    => pt_out = [exc |-> "none", tweets |-> IdsOf(pt_in)]

\* C10 witness: an item without tweet-text (and nothing else), an item
\* without data-item-id and a well-formed item between them
C10_Witness ==
    /\ pt_out # Unset
    /\ Len(pt_in) = 3
    /\ pt_in[1].id # 0 /\ ~pt_in[1].text /\ ~pt_in[1].ts
    /\ WellFormed(pt_in[2])
    /\ pt_in[3].id = 0
    /\ pt_out.exc = "none"
    /\ Len(pt_out.tweets) = 1

\* the configuration errors: no accounts and no search terms; no accounts
\* and no output_file; accounts, but no output directory and no output_file
ConfigError ==
    \/ args.accounts = Falsy /\ args.search_terms = Falsy
    \/ args.accounts = Falsy /\ args.output_file = Falsy
    \/ args.accounts # Falsy /\ ~fs.isdir /\ args.output_file = Falsy

\* C11: with a configuration error twitter_search ends in sys.exit(1), no
\* request having been sent and no file opened for writing.
C11_ConfigErrorExits ==
    (ConfigError /\ mpc # "start") =>
        /\ mpc = "exit"
        /\ exit_status = 1
        /\ nRequests = 0
        /\ opens = <<>>

\* C11 witness: accounts given, no output_file, output_dir is no directory
C11_Witness ==
    /\ mpc = "exit"
    /\ exit_status = 1
    /\ args.accounts # Falsy
    /\ args.output_file = Falsy
    /\ ~fs.isdir

\* the delta of a retry-after header: its integer, the seconds until its
\* date, 1 when it is missing or cannot be parsed
RetryAfterDelta(h) == IF h.tag \in {"digits", "date"} THEN h.v ELSE 1

\* C12: an attempt that receives an HTTP error status other than 400 and
\* 429 sleeps once, for delta * error_delay, whatever the retry-after header
\* is, and goes on to request the same URL with retry_num one higher.
C12_OtherErrorRetry ==
    [][ ( /\ last'.kind = "other"
          /\ lastAct' \in {"HttpOtherSleep", "HttpOtherRaises"} )
        => ( /\ sleeps' = << RetryAfterDelta(last'.info.retry_after) * error_delay >>
             /\ pc' = "exec"
             /\ call'.end = "running"
             /\ url' = url
             /\ retry_num' = retry_num + 1 ) ]_vars

\* the multiples of MAX_RETRIES_SESSION among the retry numbers 1..n-1 of
\* the attempts that failed before attempt n
RotationsDue(n) == IF n = 0 THEN 0 ELSE (n - 1) \div MAX_RETRIES_SESSION

\* C13: within the first execute_search call of a run, when the attempt
\* with retry number n is about to be sent, the User-Agent set by
\* TwitterSearchImpl.search has been replaced once for each failed attempt
\* whose retry number was a positive multiple of MAX_RETRIES_SESSION, and at
\* no other retry.
C13_RotationEveryFifth ==
    (pc = "exec" /\ nFetch = 1) => ua = 1 + RotationsDue(retry_num)

\* C14: a request that is a retry (retry_num above 0) follows a failed
\* attempt of the same call, HTTP 429 or another error status, and exactly
\* one sleep call was made between the two.
C14_SleepBeforeRetry ==
    (pc = "exec" /\ retry_num > 0) =>
        /\ last.kind \in {"429", "other"}
        /\ Len(sleeps) = 1

\* C14 witness: the second retry of a call is about to be sent, after a 429
C14_Witness ==
    /\ pc = "exec"
    /\ retry_num = 2
    /\ last.kind = "429"
    /\ Len(sleeps) = 1

\* the batch extracted from response r is empty
EmptyBatchOf(r) ==
    /\ r.tag = "dict"
    /\ r.items_html.tag = "html"
    /\ parse_tweets(r.items_html.items) = [exc |-> "none", tweets |-> <<>>]

\* C15: when a pass of the while loop extracts an empty batch, search
\* returns (Drained) in that pass: save_items is not called and no request
\* is sent.
C15_EmptyBatchDrains ==
    [][ (pc = "loop" /\ continue_search /\ EmptyBatchOf(response))
        => ( /\ pc' = "done"
             /\ outcome' = Returned("Drained")
             /\ nSaves' = nSaves
             /\ handed' = handed
             /\ nFetch' = nFetch
             /\ last' = last ) ]_vars

\* C15 witness: a second page whose items are all skipped ended the run
C15_Witness ==
    /\ lastAct = "SearchDrained"
    /\ response.items_html.items = <<NoId, NoText>>
    /\ outcome = Returned("Drained")
    /\ nFetch = 2
    /\ nSaves = 1

\* C16: when search goes on to a further page, it has slept rate_delay
\* once since the last request, the new URL's max_position is, once
\* URL-decoded, the min_position of the response just handled, and q, f and
\* l are those of the URL before.
C16_NextPageFetch ==
    [][ (nFetch >= 1 /\ nFetch' = nFetch + 1)
        => ( /\ sleeps' = << rate_delay >>
             /\ pc' = "exec"
             /\ { UnquotePlus(v) : v \in UrlValues(url', "max_position") }
                    = { response.min_position.val }
             /\ \A key \in {"q", "f", "l"} : UrlValues(url', key) = UrlValues(url, key) ) ]_vars

\* the item has an identifier and body text and fewer than three
\* engagement-counter nodes
CounterShort(item) == item.id # 0 /\ item.text /\ item.counters < 3

\* C17: on a fragment without counter-short items, parse_tweets does not
\* raise and returns one record for each well-formed item, whatever other
\* markup (timestamp node, tweet div) the remaining items lack.
C17_SkipsMalformedItems ==
    ( /\ pt_out # Unset
      /\ \A i \in 1..Len(pt_in) : ~CounterShort(pt_in[i]) )
    => pt_out = [exc |-> "none", tweets |-> IdsOf(pt_in)]

\* C18: when a pass of the while loop extracts a page with a
\* counter-short item, search ends in that pass with the exception of
\* parse_tweets: save_items is not called, and the counter of the sink and
\* the records handed to it before stay as they were.
C18_CounterShortAborts ==
    [][ ( /\ pc = "loop"
          /\ InBody
          /\ \E i \in 1..Len(response.items_html.items) :
                 CounterShort(response.items_html.items[i]) )
        => ( /\ pc' = "done"
             /\ outcome'.how = "raised"
             /\ outcome'.at = "parse_tweets"
             /\ outcome'.exc \in {"IndexError", "AttributeError"}
             /\ outcome'.exc = parse_tweets(response.items_html.items).exc
             /\ nSaves' = nSaves
             /\ handed' = handed
             /\ counter' = counter ) ]_vars

\* C18 witness: the second page has a counter-short item after a
\* well-formed one; the first page's record stays handed over
C18_Witness ==
    /\ lastAct = "SearchParseRaises"
    /\ outcome = Raised("IndexError", "parse_tweets")
    /\ response.items_html.items = <<Good(1), FewCounters>>
    /\ nFetch = 2
    /\ nSaves = 1
    /\ handed >= 1
    /\ counter = handed

\* the UsersLookup calls record k was submitted in
CallsWith(k) == { c \in 1..Len(ud_calls) : ud_calls[c].lo <= k /\ k <= ud_calls[c].hi }

\* C19: when retrieve_user_details has returned, every record was submitted
\* in exactly one UsersLookup call, the calls took consecutive slices of at
\* most 100 records, and the results of a call were merged into positions of
\* its own slice.
C19_EveryRecordLookedUp ==
    ud_pc = "done" =>
        /\ \A k \in 1..ud_n : Cardinality(CallsWith(k)) = 1
        /\ \A c \in 1..Len(ud_calls) :
              /\ ud_calls[c].lo = (c - 1) * step + 1
              /\ SliceLen(ud_calls[c]) <= step
        /\ \A c \in 1..Len(ud_merged) :
              \A k \in ud_merged[c].lo .. ud_merged[c].hi : CallsWith(k) = { ud_merged[c].call }

\* C20: in accounts mode without output_file, no file that had content is
\* opened for writing; the passes of the for loop take the accounts in
\* their order, a pass whose file had content is a skip without a request,
\* and when twitter_search returns every account had its pass.
C20_ExistingFilesKept ==
    (args.accounts # Falsy /\ args.output_file = Falsy) =>
        /\ \A k \in 1..Len(opens) : opens[k].was # "content"
        /\ \A k \in 1..Len(visits) :
              /\ visits[k].act = args.accounts[k]
              /\ visits[k].was = "content" =>
                    visits[k].what = "skip" /\ visits[k].requests = 0
        /\ mpc = "end" => Len(visits) = Len(args.accounts)

\* C20 witness: the first account's file had content and still has, the
\* second account was searched
C20_Witness ==
    /\ mpc = "end"
    /\ args.output_file = Falsy
    /\ Len(visits) = 2
    /\ visits[1].what = "skip"
    /\ visits[2].what = "search"
    /\ fs.size[Join(Jsonl(visits[1].act))] = "content"
    /\ Len(opens) = 1
    /\ nRequests > 0

\* C21: with max_items = L, the counter of records written never exceeds
\* L; save_items has returned False exactly when the counter is L; and the
\* records written fall short of the records handed over only then, the
\* rest of the last batch not having been written.
C21_LimitRespected ==
    max_items # NoLimit =>
        /\ counter <= max_items.limit
        /\ ~continue_search <=> counter = max_items.limit
        /\ counter <= handed
        /\ continue_search => counter = handed

\* C21 witness: L = 3, the second batch of two was cut after its first
\* record
C21_Witness ==
    /\ max_items = [limit |-> 3]
    /\ counter = 3
    /\ handed = 4
    /\ nSaves = 2
    /\ ~continue_search

\* C22: save_items is called at most once for each response fetched, so
\* the save_items calls of a run never outnumber its execute_search calls.
\* (A fetch is only made in a pass that has saved the response before it,
\* so a response saved twice shows in the counts.)
C22_ResponseSavedOnce == nSaves <= nFetch

====
